---- MODULE Spec2Model ----
(***************************************************************************)
(* Model of the Flask backend of the SMB cash-flow predictor               *)
(* (src/backend_flask.py): the /predict handler, run_forecast,             *)
(* classify_risk and the narrative-summary call.                           *)
(*                                                                         *)
(* Text is modelled as a sequence of one-character strings where the code  *)
(* edits it (column names), and as a sequence of pieces where the code     *)
(* only builds it (messages).  A date is [ym, d]: ym = year * 12 + month-1 *)
(* and d the day of the month.  Numbers are integers; the mean of a column *)
(* is kept as the exact fraction num / den.                                *)
(***************************************************************************)
EXTENDS Integers, Sequences, FiniteSets, TLC

(***************************************************************************)
(* Bounds of the model.                                                    *)
(***************************************************************************)
MaxRows == 2
MaxHorizon == 6

(***************************************************************************)
(* Text: str.strip() and str.capitalize() of the column names.             *)
(***************************************************************************)
UpperChars ==
  <<"A","B","C","D","E","F","G","H","I","J","K","L","M",
    "N","O","P","Q","R","S","T","U","V","W","X","Y","Z">>

LowerChars ==
  <<"a","b","c","d","e","f","g","h","i","j","k","l","m",
    "n","o","p","q","r","s","t","u","v","w","x","y","z">>

ToUpper(c) ==
  IF \E i \in 1..26 : LowerChars[i] = c
  THEN UpperChars[CHOOSE i \in 1..26 : LowerChars[i] = c]
  ELSE c

ToLower(c) ==
  IF \E i \in 1..26 : UpperChars[i] = c
  THEN LowerChars[CHOOSE i \in 1..26 : UpperChars[i] = c]
  ELSE c

IsSpace(c) == c = " "

RECURSIVE LStrip(_)
LStrip(s) ==
  IF s # <<>> /\ IsSpace(Head(s)) THEN LStrip(Tail(s)) ELSE s

RECURSIVE RStrip(_)
RStrip(s) ==
  IF s # <<>> /\ IsSpace(s[Len(s)]) THEN RStrip(SubSeq(s, 1, Len(s) - 1)) ELSE s

Strip(s) == RStrip(LStrip(s))

Capitalize(s) ==
  [i \in 1..Len(s) |-> IF i = 1 THEN ToUpper(s[i]) ELSE ToLower(s[i])]

\* c.strip().capitalize()
NormalizeName(c) == Capitalize(Strip(c))

MonthCol == <<"M","o","n","t","h">>
RevenueCol == <<"R","e","v","e","n","u","e">>
ExpensesCol == <<"E","x","p","e","n","s","e","s">>
ReceivablesCol == <<"R","e","c","e","i","v","a","b","l","e","s">>
PayablesCol == <<"P","a","y","a","b","l","e","s">>
NetCashCol == <<"N","e","t","_","c","a","s","h">>

RequiredCols == <<RevenueCol, ExpensesCol, ReceivablesCol, PayablesCol>>

(***************************************************************************)
(* Calendar.                                                               *)
(***************************************************************************)
IsLeap(y) == (y % 4 = 0 /\ y % 100 # 0) \/ y % 400 = 0

DaysInMonth(y, m) ==
  IF m = 2 THEN (IF IsLeap(y) THEN 29 ELSE 28)
  ELSE IF m \in {4, 6, 9, 11} THEN 30 ELSE 31

YearOf(ym) == ym \div 12
MonthOf(ym) == (ym % 12) + 1

NaT == [ym |-> 0, d |-> 0]

IsNaT(t) == t = NaT

\* pd.to_datetime(value, errors="coerce") of one cell written year-month-day
ToDatetime(raw) ==
  IF raw.m \in 1..12 /\ raw.d >= 1 /\ raw.d <= DaysInMonth(raw.y, raw.m)
  THEN [ym |-> raw.y * 12 + (raw.m - 1), d |-> raw.d]
  ELSE NaT

DateLess(a, b) == a.ym < b.ym \/ (a.ym = b.ym /\ a.d < b.d)

\* the month end on or after t (MonthEnd.rollforward)
MonthEndOf(ym) == [ym |-> ym, d |-> DaysInMonth(YearOf(ym), MonthOf(ym))]

(***************************************************************************)
(* Data frames: [columns, rows], a row being the sequence of its cells in  *)
(* column order.                                                           *)
(***************************************************************************)
HasCol(df, name) == \E i \in 1..Len(df.columns) : df.columns[i] = name

ColIndex(df, name) == CHOOSE i \in 1..Len(df.columns) : df.columns[i] = name

\* df[name] as the sequence of its cells
Column(df, name) == [r \in 1..Len(df.rows) |-> df.rows[r][ColIndex(df, name)]]

\* df[name] = cells: replaces the column, or appends it when it is new
SetColumn(df, name, cells) ==
  IF HasCol(df, name)
  THEN [df EXCEPT !.rows =
          [r \in 1..Len(df.rows) |->
             [df.rows[r] EXCEPT ![ColIndex(df, name)] = cells[r]]]]
  ELSE [columns |-> Append(df.columns, name),
        rows |-> [r \in 1..Len(df.rows) |-> Append(df.rows[r], cells[r])]]

RECURSIVE SumSeq(_)
SumSeq(s) == IF s = <<>> THEN 0 ELSE Head(s) + SumSeq(Tail(s))

\* Series.mean() as an exact fraction; den = 0 is the NaN of an empty column
Mean(cells) == [num |-> SumSeq(cells), den |-> Len(cells)]

\* line 38: df.columns = [c.strip().capitalize() for c in df.columns]
RenameColumns(df) ==
  [df EXCEPT !.columns = [i \in 1..Len(df.columns) |-> NormalizeName(df.columns[i])]]

\* line 39: df["Month"] = pd.to_datetime(df["Month"], errors="coerce")
CoerceMonth(df) ==
  SetColumn(df, MonthCol,
            [r \in 1..Len(df.rows) |-> ToDatetime(Column(df, MonthCol)[r])])

\* the order of sort_values: ascending, NaT last
MonthBefore(a, b) == ~IsNaT(a) /\ (IsNaT(b) \/ DateLess(a, b))

RECURSIVE InsertRow(_, _, _)
InsertRow(sorted, row, k) ==
  IF sorted = <<>> THEN <<row>>
  ELSE IF MonthBefore(row[k], Head(sorted)[k])
       THEN <<row>> \o sorted
       ELSE <<Head(sorted)>> \o InsertRow(Tail(sorted), row, k)

RECURSIVE SortRows(_, _)
SortRows(rows, k) ==
  IF rows = <<>> THEN <<>>
  ELSE InsertRow(SortRows(SubSeq(rows, 1, Len(rows) - 1), k), rows[Len(rows)], k)

\* line 40: df.sort_values("Month").reset_index(drop=True), a new frame
SortValues(df) == [df EXCEPT !.rows = SortRows(df.rows, ColIndex(df, MonthCol))]

\* lines 43-45: every missing financial column is added as zeros
RECURSIVE EnsureColumns(_, _)
EnsureColumns(df, cols) ==
  IF cols = <<>> THEN df
  ELSE EnsureColumns(
         IF HasCol(df, Head(cols)) THEN df
         ELSE SetColumn(df, Head(cols), [r \in 1..Len(df.rows) |-> 0]),
         Tail(cols))

\* line 48
WithNetCash(df) ==
  SetColumn(df, NetCashCol,
    [r \in 1..Len(df.rows) |->
       Column(df, RevenueCol)[r] + Column(df, ReceivablesCol)[r]
         - (Column(df, ExpensesCol)[r] + Column(df, PayablesCol)[r])])

(***************************************************************************)
(* The forecasting library as the code uses it.                            *)
(***************************************************************************)
MinFitRows == 2

RECURSIVE SortDates(_)
SortDates(S) ==
  IF S = {} THEN <<>>
  ELSE LET least == CHOOSE a \in S : \A b \in S : ~DateLess(b, a)
       IN  <<least>> \o SortDates(S \ {least})

\* a fit that takes a history of one row
FitAnyRows(ds) ==
  IF Len(ds) < 1
    THEN [ok |-> FALSE, err |-> "Dataframe has less than 2 non-NaN rows.",
          history_dates |-> <<>>]
  ELSE IF \E r \in 1..Len(ds) : IsNaT(ds[r])
    THEN [ok |-> FALSE, err |-> "Found NaN in column ds.", history_dates |-> <<>>]
  ELSE [ok |-> TRUE, err |-> "",
        history_dates |-> SortDates({ds[r] : r \in 1..Len(ds)})]

\* lines 52-53: Prophet(interval_width=0.8).fit(prophet_df) on ds = Month
Fit(ds) ==
  IF Len(ds) < MinFitRows
    THEN [ok |-> FALSE, err |-> "Dataframe has less than 2 non-NaN rows.",
          history_dates |-> <<>>]
  ELSE IF \E r \in 1..Len(ds) : IsNaT(ds[r])
    THEN [ok |-> FALSE, err |-> "Found NaN in column ds.", history_dates |-> <<>>]
  ELSE [ok |-> TRUE, err |-> "",
        history_dates |-> SortDates({ds[r] : r \in 1..Len(ds)})]

\* pd.date_range(start, periods, freq='M'): the month ends from start on;
\* periods = 0 (a horizon of -1) gives no date
DateRange(start, periods) ==
  [i \in 1..(IF periods > 0 THEN periods ELSE 0) |-> MonthEndOf(start.ym + i - 1)]

RECURSIVE SelectAfter(_, _)
SelectAfter(dates, last) ==
  IF dates = <<>> THEN <<>>
  ELSE IF DateLess(last, Head(dates))
       THEN <<Head(dates)>> \o SelectAfter(Tail(dates), last)
       ELSE SelectAfter(Tail(dates), last)

\* s[:n] of Python
Take(s, n) ==
  IF n >= 0 THEN SubSeq(s, 1, IF n < Len(s) THEN n ELSE Len(s))
  ELSE SubSeq(s, 1, IF Len(s) + n > 0 THEN Len(s) + n ELSE 0)

\* line 57 without .tail(months_to_forecast)
AllRows(s, n) == s

\* DataFrame.tail(n): the last n rows; for n < 0 all rows but the first -n
TailRows(s, n) ==
  IF n = 0 THEN <<>>
  ELSE IF n > 0 THEN SubSeq(s, (IF n < Len(s) THEN Len(s) - n ELSE 0) + 1, Len(s))
  ELSE SubSeq(s, (IF -n < Len(s) THEN -n ELSE Len(s)) + 1, Len(s))

\* the dates make_future_dataframe adds after the last date of the history
FutureDates(last_date, periods) ==
  Take(SelectAfter(DateRange(last_date, periods + 1), last_date), periods)

\* line 56: model.make_future_dataframe(periods=months_to_forecast, freq='M')
MakeFutureDataframe(history_dates, periods) ==
  history_dates \o FutureDates(history_dates[Len(history_dates)], periods)

\* line 57: model.predict(future); the fitted values are the library's, chosen
\* by out = [base, step, width] with yhat_lower <= yhat <= yhat_upper
ModelPredict(future, out) ==
  [i \in 1..Len(future) |->
     [ds |-> future[i],
      yhat_lower |-> out.base + (Len(future) - i) * out.step,
      yhat |-> out.base + (Len(future) - i) * out.step + out.width * (i % 2),
      yhat_upper |-> out.base + (Len(future) - i) * out.step + out.width * (i % 2)
                       + out.width]]

\* lines 59-60
ResultRow(p) ==
  [Month |-> p.ds, Predicted_Net_Cash |-> p.yhat,
   Lower_Bound |-> p.yhat_lower, Upper_Bound |-> p.yhat_upper]

(***************************************************************************)
(* run_forecast(df, months_to_forecast).  caller is the frame object the   *)
(* caller passed, as the call leaves it; result is the frame returned.     *)
(***************************************************************************)
RunForecast(df, months_to_forecast, out) ==
  LET renamed == RenameColumns(df)
  IN
  IF ~HasCol(renamed, MonthCol)
  THEN [ok |-> FALSE, err |-> "'Month'", caller |-> renamed, result |-> <<>>,
        history |-> <<>>]
  ELSE
    LET coerced == CoerceMonth(renamed)
        local == WithNetCash(EnsureColumns(SortValues(coerced), RequiredCols))
        model == Fit(Column(local, MonthCol))
    IN
    IF ~model.ok
    THEN [ok |-> FALSE, err |-> model.err, caller |-> coerced, result |-> <<>>,
          history |-> <<>>]
    ELSE
      LET future == MakeFutureDataframe(model.history_dates, months_to_forecast)
          forecast == TailRows(ModelPredict(future, out), months_to_forecast)
      IN [ok |-> TRUE, err |-> "", caller |-> coerced,
          result |-> [i \in 1..Len(forecast) |-> ResultRow(forecast[i])],
          history |-> model.history_dates]

(***************************************************************************)
(* classify_risk(forecast_df, avg_exp).  0.1 * avg_exp and -0.25 * avg_exp *)
(* are compared exactly: lower <= -0.25 * num / den is                     *)
(* 4 * den * lower <= -num, and lower < 0.1 * num / den is                 *)
(* 10 * den * lower < num.  A NaN mean (den = 0) makes both tests false.   *)
(***************************************************************************)
Critical == "Critical"
Warning == "Warning"
Safe == "Safe"

AtOrBelowCritical(lower, avg_exp) ==
  avg_exp.den > 0 /\ 4 * avg_exp.den * lower <= -avg_exp.num

\* line 80 with <= for <
BelowOrAtWarning(lower, avg_exp) ==
  avg_exp.den > 0 /\ 10 * avg_exp.den * lower <= avg_exp.num

BelowWarning(lower, avg_exp) ==
  avg_exp.den > 0 /\ 10 * avg_exp.den * lower < avg_exp.num

\* lines 71-85
ClassifyRow(row, avg_exp) ==
  LET lower == row.Lower_Bound
      pred == row.Predicted_Net_Cash
  IN
  IF AtOrBelowCritical(lower, avg_exp)
  THEN [Risk |-> Critical,
        Reason |-> [text |-> "Large shortfall likely (lower bound {}).", arg |-> lower]]
  ELSE IF BelowWarning(lower, avg_exp)
  THEN [Risk |-> Warning,
        Reason |-> [text |-> "Cash position tight (lower bound {}).", arg |-> lower]]
  ELSE [Risk |-> Safe,
        Reason |-> [text |-> "No deficit expected; projected {}.", arg |-> pred]]

\* lines 67-92: the frame received, with the Risk and Reason columns set on it
ClassifyRisk(forecast_df, avg_exp) ==
  [i \in 1..Len(forecast_df) |->
     [Month |-> forecast_df[i].Month,
      Predicted_Net_Cash |-> forecast_df[i].Predicted_Net_Cash,
      Lower_Bound |-> forecast_df[i].Lower_Bound,
      Upper_Bound |-> forecast_df[i].Upper_Bound,
      Risk |-> ClassifyRow(forecast_df[i], avg_exp).Risk,
      Reason |-> ClassifyRow(forecast_df[i], avg_exp).Reason]]

(***************************************************************************)
(* The /predict handler and its narrative-summary step.                    *)
(***************************************************************************)
VARIABLES
  client,       \* line 31: whether OPENAI_API_KEY gave a client
  pc,           \* "idle", "table", "create", "done": where the handler stands
  months,       \* line 111
  uploaded,     \* the frame read_csv returned, as it was before run_forecast
  df,           \* that same frame object, as it is now
  returned,     \* the frame run_forecast returned, as it was on return
  forecast_df,  \* that same frame object, as it is now
  avg_exp,      \* line 122
  ran,          \* whether run_forecast returned a frame on this request
  outcome,      \* how the summary step ended, and the exception it caught
  calls,        \* calls of client.chat.completions.create on this request
  attempts,     \* HTTP requests the client library sent on this request
  response      \* the response of the request

vars ==
  <<client, pc, months, uploaded, df, returned, forecast_df, avg_exp, ran,
    outcome, calls, attempts, response>>

\* line 31: OpenAI(api_key=...) keeps the library's default of two retries
MaxRetries == 2

NoFrame == [columns |-> <<>>, rows |-> <<>>]
NoMean == [num |-> 0, den |-> 0]
\* a JSON string built from a text and the value formatted into it, or null
Text(t, a) == [null |-> FALSE, text |-> t, arg |-> a]
Null == [null |-> TRUE, text |-> "", arg |-> ""]
NoOutcome == [kind |-> "none", exc |-> ""]
NoResponse ==
  [status |-> 0, keys |-> {}, error |-> "", message |-> Null,
   forecast |-> <<>>, ai_summary |-> Null]

\* line 129
DefaultSummary == Text("AI summary could not be generated.", "")
\* line 165
MissingKeySummary == Text("Missing OpenAI API key.", "")
\* line 162 without the exception's text
FailedSummaryFixed(e) == Text("AI summary failed: {}", "")

\* line 162: f"AI summary failed: {e}"
FailedSummary(e) == Text("AI summary failed: {}", e)
\* line 156
ReplySummary(content) == Text(content, "")

\* lines 114 and 176: jsonify({"error": ...}), status
ErrorResponse(status, text) ==
  [status |-> status, keys |-> {"error"}, error |-> text, message |-> Null,
   forecast |-> <<>>, ai_summary |-> Null]

\* lines 168-172
SuccessResponse(n, forecast_json, summary) ==
  [status |-> 200, keys |-> {"message", "forecast", "ai_summary"}, error |-> "",
   message |-> Text("{}-month forecast generated successfully.", n),
   forecast |-> forecast_json, ai_summary |-> summary]

\* line 111: int(request.form.get("months", 3))
DefaultMonths == 3

ParseMonths(field) ==
  IF field.kind = "absent" THEN [ok |-> TRUE, value |-> DefaultMonths]
  ELSE IF field.kind = "int" THEN [ok |-> TRUE, value |-> field.value]
  ELSE [ok |-> FALSE, value |-> 0]

\* line 118: pd.read_csv; a content with no header line has nothing to parse
ReadCsv(content) ==
  IF content.columns = <<>>
  THEN [ok |-> FALSE, err |-> "No columns to parse from file", frame |-> NoFrame]
  ELSE [ok |-> TRUE, err |-> "", frame |-> content]

(***************************************************************************)
(* The requests of the model.                                              *)
(***************************************************************************)
RawMonths ==
  { [y |-> 2023, m |-> 11, d |-> 30], [y |-> 2023, m |-> 12, d |-> 1],
    [y |-> 2023, m |-> 12, d |-> 31], [y |-> 2023, m |-> 2, d |-> 30] }

Amounts ==
  { [rev |-> 100, exp |-> 40, rec |-> 0, pay |-> 0],
    [rev |-> 0, exp |-> 0, rec |-> 10, pay |-> 20] }

Headers ==
  { <<>>,
    <<MonthCol, RevenueCol, ExpensesCol, ReceivablesCol, PayablesCol>>,
    << <<" ","m","o","n","t","h">>, <<"E","X","P","E","N","S","E","S"," ">> >>,
    <<MonthCol, RevenueCol>>,
    << <<"D","a","t","e">>, ExpensesCol >> }

Cell(name, raw, amount) ==
  LET n == NormalizeName(name)
  IN IF n = RevenueCol THEN amount.rev
     ELSE IF n = ExpensesCol THEN amount.exp
     ELSE IF n = ReceivablesCol THEN amount.rec
     ELSE IF n = PayablesCol THEN amount.pay
     ELSE raw

RowCounts == 0..MaxRows

Contents ==
  { [columns |-> h,
     rows |-> [r \in 1..n |-> [c \in 1..Len(h) |-> Cell(h[c], raws[r], amounts[r])]]] :
    h \in Headers, n \in RowCounts,
    raws \in [1..MaxRows -> RawMonths], amounts \in [1..MaxRows -> Amounts] }

MonthsFields ==
  { [kind |-> "absent", value |-> 0], [kind |-> "text", value |-> 0] }
    \cup { [kind |-> "int", value |-> n] : n \in -1..MaxHorizon }

ModelOutputs == [base : {-10, 0}, step : {0, 14}, width : {5}]

Replies == {"Cash position is stable."}

RetryableErrors == {"Request timed out."}

FatalErrors == {"Error code: 401"}

TableErrors == {"Missing optional dependency 'tabulate'."}

Init ==
  /\ client \in BOOLEAN
  /\ pc = "idle"
  /\ months = 0
  /\ uploaded = NoFrame
  /\ df = NoFrame
  /\ returned = <<>>
  /\ forecast_df = <<>>
  /\ avg_exp = NoMean
  /\ ran = FALSE
  /\ outcome = NoOutcome
  /\ calls = 0
  /\ attempts = 0
  /\ response = NoResponse

\* lines 174-176: the request ends with an error response
Fail(status, text) ==
  /\ pc' = "done"
  /\ response' = ErrorResponse(status, text)
  /\ UNCHANGED <<client, outcome, calls, attempts>>

\* lines 108-131 and 163-172: the handler up to the summary step
Predict(field, file, content, out) ==
  /\ pc = "idle"
  /\ LET parsed == ParseMonths(field)
         read == ReadCsv(content)
         run == RunForecast(read.frame, parsed.value, out)
         mean == Mean(Column(run.caller, ExpensesCol))
         classified == ClassifyRisk(run.result, mean)
     IN
     IF ~parsed.ok
     THEN /\ Fail(500, "invalid literal for int() with base 10")
          /\ UNCHANGED <<months, uploaded, df, returned, forecast_df, avg_exp, ran>>
     ELSE IF ~file
     THEN /\ Fail(400, "No file uploaded")
          /\ months' = parsed.value
          /\ UNCHANGED <<uploaded, df, returned, forecast_df, avg_exp, ran>>
     ELSE IF ~read.ok
     THEN /\ Fail(500, read.err)
          /\ months' = parsed.value
          /\ UNCHANGED <<uploaded, df, returned, forecast_df, avg_exp, ran>>
     ELSE IF ~run.ok
     THEN /\ Fail(500, run.err)
          /\ months' = parsed.value
          /\ uploaded' = read.frame
          /\ df' = run.caller
          /\ UNCHANGED <<returned, forecast_df, avg_exp, ran>>
     ELSE IF ~HasCol(run.caller, ExpensesCol)
     THEN /\ Fail(500, "'Expenses'")
          /\ months' = parsed.value
          /\ uploaded' = read.frame
          /\ df' = run.caller
          /\ returned' = run.result
          /\ forecast_df' = run.result
          /\ ran' = TRUE
          /\ UNCHANGED avg_exp
     ELSE /\ months' = parsed.value
          /\ uploaded' = read.frame
          /\ df' = run.caller
          /\ returned' = run.result
          /\ forecast_df' = classified
          /\ avg_exp' = mean
          /\ ran' = TRUE
          /\ IF client
             THEN /\ pc' = "table"
                  /\ UNCHANGED <<client, outcome, calls, attempts, response>>
             ELSE /\ pc' = "done"
                  /\ outcome' = [kind |-> "missing", exc |-> ""]
                  /\ response' = SuccessResponse(parsed.value, classified, MissingKeySummary)
                  /\ UNCHANGED <<client, calls, attempts>>

\* lines 168-172 after the summary step
Respond(summary, how) ==
  /\ pc' = "done"
  /\ outcome' = how
  /\ response' = SuccessResponse(months, forecast_df, summary)
  /\ UNCHANGED <<client, months, uploaded, df, returned, forecast_df, avg_exp, ran>>

\* lines 160-162 with the exception raised again, into line 174
FallbackReraises(e) ==
  /\ pc' = "done"
  /\ outcome' = [kind |-> "raised", exc |-> e]
  /\ response' = ErrorResponse(500, e)
  /\ UNCHANGED <<client, months, uploaded, df, returned, forecast_df, avg_exp, ran>>

\* lines 160-162
Fallback(e) == Respond(FailedSummary(e), [kind |-> "raised", exc |-> e])

\* lines 134-154: the table text is built and create is called
BuildTable ==
  /\ pc = "table"
  /\ pc' = "create"
  /\ calls' = calls + 1
  /\ UNCHANGED <<client, months, uploaded, df, returned, forecast_df, avg_exp,
                 ran, outcome, attempts, response>>

\* line 134 raises
BuildTableRaises(e) ==
  /\ pc = "table"
  /\ Fallback(e)
  /\ UNCHANGED <<calls, attempts>>

\* lines 148-158: an HTTP request of create is answered with a text
AttemptReplies(content) ==
  /\ pc = "create"
  /\ attempts' = attempts + 1
  /\ Respond(ReplySummary(content), [kind |-> "replied", exc |-> ""])
  /\ UNCHANGED calls

\* line 156: the answer has no choice to read
AttemptRepliesEmpty ==
  /\ pc = "create"
  /\ attempts' = attempts + 1
  /\ Fallback("list index out of range")
  /\ UNCHANGED calls

\* lines 148-154: an HTTP request times out or fails in a way the client
\* library retries; create raises once the retries are spent
AttemptFails(e) ==
  /\ pc = "create"
  /\ attempts' = attempts + 1
  /\ IF attempts < MaxRetries
     THEN UNCHANGED <<client, pc, months, uploaded, df, returned, forecast_df,
                      avg_exp, ran, outcome, response>>
     ELSE Fallback(e)
  /\ UNCHANGED calls

\* lines 148-154: an HTTP request is refused; create raises at once
AttemptRefused(e) ==
  /\ pc = "create"
  /\ attempts' = attempts + 1
  /\ Fallback(e)
  /\ UNCHANGED calls

\* the server takes the next request; nothing of the last one is kept
NextRequest ==
  /\ pc = "done"
  /\ pc' = "idle"
  /\ months' = 0
  /\ uploaded' = NoFrame
  /\ df' = NoFrame
  /\ returned' = <<>>
  /\ forecast_df' = <<>>
  /\ avg_exp' = NoMean
  /\ ran' = FALSE
  /\ outcome' = NoOutcome
  /\ calls' = 0
  /\ attempts' = 0
  /\ response' = NoResponse
  /\ UNCHANGED client

\* a POST /predict arrives: its months field, its file and what the library fits
Request ==
  /\ pc = "idle"
  /\ \E field \in MonthsFields, file \in BOOLEAN, content \in Contents,
        out \in ModelOutputs : Predict(field, file, content, out)

Next ==
  \/ Request
  \/ BuildTable
  \/ \E e \in TableErrors : BuildTableRaises(e)
  \/ \E content \in Replies : AttemptReplies(content)
  \/ AttemptRepliesEmpty
  \/ \E e \in RetryableErrors : AttemptFails(e)
  \/ \E e \in FatalErrors : AttemptRefused(e)
  \/ NextRequest

Spec == Init /\ [][Next]_vars

(***************************************************************************)
(* Properties.                                                             *)
(***************************************************************************)
Done == pc = "done"
Succeeded == Done /\ response.status = 200

\* the forecast frame carries Risk and Reason: line 123 has returned
Classified == pc \in {"table", "create"} \/ Succeeded

\* run_forecast was called: read_csv gave a frame
Called == uploaded # NoFrame

\* the dates of the history, read from the caller's frame after line 39
HistoryDates == {df.rows[r][ColIndex(df, MonthCol)] : r \in 1..Len(df.rows)}

Contiguous(rows) ==
  \A i \in 1..(Len(rows) - 1) : rows[i + 1].Month.ym = rows[i].Month.ym + 1

FirstMatch(lower, mean) ==
  IF 4 * mean.den * lower <= -mean.num THEN "Critical"
  ELSE IF 10 * mean.den * lower < mean.num THEN "Warning"
  ELSE "Safe"

\* C1 as stated: every classified point has the tier of the first matching
\* rule; a lower bound equal to -0.25 * avg_expenses is Critical and a lower
\* bound equal to 0.10 * avg_expenses is Safe, for every avg_expenses.
C1_Original ==
  Classified =>
    \A i \in 1..Len(forecast_df) :
      LET lower == forecast_df[i].Lower_Bound
      IN /\ forecast_df[i].Risk = FirstMatch(lower, avg_exp)
         /\ (4 * avg_exp.den * lower = -avg_exp.num => forecast_df[i].Risk = "Critical")
         /\ (10 * avg_exp.den * lower = avg_exp.num => forecast_df[i].Risk = "Safe")

\* C1 amended: every classified point has the tier of the first matching rule
\* (Critical if lower <= -0.25 * avg, else Warning if lower < 0.10 * avg, else
\* Safe); lower = -0.25 * avg is Critical; lower = 0.10 * avg is never Warning,
\* and is Safe when avg > 0 (with avg <= 0 that point is at or below the
\* critical threshold and is Critical).
C1_TierByFirstMatch ==
  Classified =>
    \A i \in 1..Len(forecast_df) :
      LET lower == forecast_df[i].Lower_Bound
      IN /\ forecast_df[i].Risk = FirstMatch(lower, avg_exp)
         /\ (4 * avg_exp.den * lower = -avg_exp.num => forecast_df[i].Risk = "Critical")
         /\ (10 * avg_exp.den * lower = avg_exp.num =>
               /\ forecast_df[i].Risk # "Warning"
               /\ (avg_exp.num > 0 => forecast_df[i].Risk = "Safe")
               /\ (avg_exp.num <= 0 => forecast_df[i].Risk = "Critical"))

C1_Witness ==
  /\ Succeeded
  /\ avg_exp.num > 0
  /\ \E i \in 1..Len(response.forecast) :
       /\ 10 * avg_exp.den * response.forecast[i].Lower_Bound = avg_exp.num
       /\ response.forecast[i].Risk = "Safe"
  /\ \E i \in 1..Len(response.forecast) :
       /\ 4 * avg_exp.den * response.forecast[i].Lower_Bound = -avg_exp.num
       /\ response.forecast[i].Risk = "Critical"

\* C2: when run_forecast returns for a horizon h >= 1, the frame it returns,
\* and the forecast of a success response, has exactly h entries whose months
\* are contiguous and strictly increasing.
C2_HorizonEntriesContiguous ==
  (ran /\ months >= 1) =>
    /\ Len(returned) = months
    /\ Contiguous(returned)
    /\ \A i \in 1..(Len(returned) - 1) : DateLess(returned[i].Month, returned[i + 1].Month)
    /\ (Succeeded =>
          /\ Len(response.forecast) = months
          /\ \A i \in 1..months : response.forecast[i].Month = returned[i].Month)

C2_Witness ==
  /\ Succeeded
  /\ months = MaxHorizon
  /\ Len(response.forecast) = MaxHorizon
  /\ MonthOf(response.forecast[1].Month.ym) = 12
  /\ MonthOf(response.forecast[2].Month.ym) = 1

\* C3: the first forecast entry of a success response is for the calendar
\* month right after the last month of the history, and no entry is in the
\* calendar month of a historical record.
C3_Original ==
  (Succeeded /\ months >= 1) =>
    /\ response.forecast # <<>>
    /\ \A h \in HistoryDates : h.ym < response.forecast[1].Month.ym
    /\ \E h \in HistoryDates : response.forecast[1].Month.ym = h.ym + 1
    /\ \A i \in 1..Len(response.forecast) :
         \A h \in HistoryDates : response.forecast[i].Month.ym # h.ym

\* the frame has what a forecast needs: a Month column, two rows, dates that parse
UsableHistory ==
  /\ Called
  /\ HasCol(df, MonthCol)
  /\ Len(df.rows) >= 2
  /\ \A h \in HistoryDates : ~IsNaT(h)

\* C4: a request whose dataset has a Month column, at least two rows and
\* dates that parse ends in a success response whichever of the four
\* financial columns it lacks.
C4_Original == (Done /\ UsableHistory) => response.status = 200

\* the forecast and classification steps succeeded: line 126 was reached
ForecastDone == ran /\ HasCol(df, ExpensesCol)

\* C5: once the forecast and classification steps succeeded the request ends
\* in a success response with the whole classified forecast and a non-null
\* ai_summary, whether the client is absent, the summary step raises (table
\* text, remote call, reading the reply) or it succeeds.
C5_SummaryNeverFailsRequest ==
  /\ (pc \in {"table", "create"} => ForecastDone)
  /\ (Done /\ ForecastDone) =>
       /\ response.status = 200
       /\ response.keys = {"message", "forecast", "ai_summary"}
       /\ response.forecast = forecast_df
       /\ Len(response.forecast) = Len(returned)
       /\ ~response.ai_summary.null
       /\ outcome.kind \in {"missing", "raised", "replied"}
       /\ (outcome.kind = "missing") = ~client

C5_Witness ==
  /\ Succeeded
  /\ outcome.kind = "raised"
  /\ attempts = MaxRetries + 1
  /\ Len(response.forecast) = MaxHorizon

SummaryFailed == Done /\ outcome.kind \in {"missing", "raised"}

\* C6 as stated: every failure of the summary step gives the same ai_summary,
\* the one an absent client gives, whatever was raised.
C6_Original == SummaryFailed => response.ai_summary = MissingKeySummary

\* C6 amended: with no client ai_summary is "Missing OpenAI API key."; when
\* the summary step raises it is "AI summary failed: " followed by the text
\* of the exception raised; in both cases the request succeeds.
C6_PlaceholderNamesCause ==
  SummaryFailed =>
    /\ response.status = 200
    /\ (outcome.kind = "missing" =>
          response.ai_summary = [null |-> FALSE, text |-> "Missing OpenAI API key.",
                                 arg |-> ""])
    /\ (outcome.kind = "raised" =>
          response.ai_summary = [null |-> FALSE, text |-> "AI summary failed: {}",
                                 arg |-> outcome.exc])

C6_Witness ==
  /\ SummaryFailed
  /\ outcome.kind = "raised"
  /\ response.ai_summary.arg = "Request timed out."

\* C7: a request whose dataset has fewer than two rows ends in an error
\* response {"error": text} with a non-success status, no forecast and no
\* ai_summary, and the summary collaborator is never called on it.
C7_ShortDatasetFails ==
  Len(uploaded.rows) < 2 =>
    /\ pc \in {"idle", "done"}
    /\ ~ran
    /\ calls = 0
    /\ attempts = 0
    /\ outcome.kind = "none"
    /\ Done =>
         /\ response.status \in {400, 500}
         /\ response.keys = {"error"}
         /\ response.error # ""
         /\ response.forecast = <<>>
         /\ response.ai_summary.null

C7_Witness ==
  /\ Done
  /\ Called
  /\ HasCol(df, MonthCol)
  /\ HasCol(df, ExpensesCol)
  /\ Len(uploaded.rows) = 1
  /\ ~IsNaT(df.rows[1][ColIndex(df, MonthCol)])
  /\ response.error = "Dataframe has less than 2 non-NaN rows."

\* C8: run_forecast leaves the frame its caller passed as it was, and
\* classify_risk leaves the frame it received as it was.
C8_Original ==
  /\ Called => df = uploaded
  /\ ran => forecast_df = returned

\* C9: the summary call is attempted at most once per request: a failed
\* attempt falls back to the placeholder and is not retried.
C9_Original == calls <= 1 /\ attempts <= 1

\* C10: a success response has exactly months entries when months >= 0, has
\* none when months <= 0, and never returns a row of the history as a
\* forecast record.
C10_Original ==
  Succeeded =>
    /\ (months >= 0 => Len(response.forecast) = months)
    /\ (months <= 0 => response.forecast = <<>>)
    /\ \A i \in 1..Len(response.forecast) : response.forecast[i].Month \notin HistoryDates

====
